---------------------------- MODULE Spec2Model ----------------------------
(***************************************************************************)
(* AiDivaLogger: the synchronisation engine between the Apex controller    *)
(* (record source) and InfluxDB (point store).                             *)
(*                                                                         *)
(* Time is counted in whole hours.  An instant is a number of hours on the *)
(* UTC axis; a record's date string "MM/DD/YYYY HH:MM:SS" is the number of *)
(* hours on the controller's wall clock, so its first ten characters (the  *)
(* calendar date) are  date \div 24.                                       *)
(*                                                                         *)
(* The specifications share the variables:                                 *)
(*   SpecQuery     the chunked query helper alone, on drawn store contents *)
(*   SpecClock     the chunked query helper while the store's clock runs   *)
(*   SpecConfig    the chunked query helper for any integer configuration  *)
(*   SpecScan      ApexClient.getDataCoverage alone, with a recording sink *)
(*   Spec          main(): backfill, detached reconciliation, live polling *)
(*   SpecSync      the process with offsets sixteen hours apart            *)
(*   SpecPass      the scan and sink of a pass on many-probe records       *)
(*   SpecBackfill  startup through the backfill                            *)
(*   SpecShutdown  the process with SIGINT / SIGTERM delivered             *)
(*   SpecMap       the backfill and the first poll on drawn records and    *)
(*                 status snapshots: the mapper's functions                *)
(***************************************************************************)
EXTENDS Integers, Sequences, FiniteSets, TLC

VARIABLES
    now,          \* the instant "new Date()" / the store's now() (hours, UTC)
    tzLocal,      \* the process's local timezone offset (hours)
    tzApex,       \* datalog.timezone, the controller's offset (hours)
    config,       \* config.queryChunkDays, .queryLookbackDays, .forceFullSync
    source,       \* the records the controller holds (set of ApexRecord)
    scanCeiling,  \* widest range (days) the store accepts in one query
    failChunks,   \* chunk indexes whose historical fetch fails
    status,       \* the outputs of the controller's status.json snapshot
    db,           \* the store's points, one per (measurement, tags, time)
    faultsLeft,   \* transient store / source failures still to be injected
    helper,       \* activation of queryNewestInChunks / queryOldestInChunks
    scan,         \* activation of ApexClient.getDataCoverage
    sink,         \* activation of the onChunk callback
    recon,        \* activation of checkDatabaseFreshness
    bf,           \* activation of backfillRecentGaps
    poll,         \* activation of poll()
    proc          \* main() and the process

vars == <<now, tzLocal, tzApex, config, source, scanCeiling, failChunks, status, db,
          faultsLeft, helper, scan, sink, recon, bf, poll, proc>>

envVars == <<now, tzLocal, tzApex, config, source, scanCeiling, failChunks, status>>

---------------------------------------------------------------------------
(* Units and small helpers *)

HoursPerDay == 24

Min(a, b) == IF a < b THEN a ELSE b

Max(a, b) == IF a > b THEN a ELSE b

SetMax(S) == CHOOSE x \in S : \A y \in S : y <= x

SetMin(S) == CHOOSE x \in S : \A y \in S : x <= y

---------------------------------------------------------------------------
(* Errors.  An error is what a rejected promise carries: whether it is an  *)
(* Error object and which phrases its message contains.                    *)

ErrFileLimitA == [isError |-> TRUE, text |-> {"exceeding the file limit"}]

ErrFileLimitB == [isError |-> TRUE, text |-> {"would scan", "Parquet files"}]

ErrGeneric == [isError |-> TRUE, text |-> {"connection refused"}]

ErrNonError == [isError |-> FALSE, text |-> {"exceeding the file limit"}]

ErrFetch == [isError |-> TRUE, text |-> {"Failed to fetch Apex"}]

NoError == [isError |-> FALSE, text |-> {}]

ScanCeilingErrors == {ErrFileLimitA, ErrFileLimitB}

GenericStoreErrors == {ErrGeneric, ErrNonError}

\* A mutated classifier: every store error counts as a file-limit error.
isFileLimitErrorAny(error) == error.isError

isFileLimitError(error) ==
    /\ error.isError
    /\ \/ "exceeding the file limit" \in error.text
       \/ ("would scan" \in error.text /\ "Parquet files" \in error.text)

---------------------------------------------------------------------------
(* The point store (InfluxClient over InfluxDB 3).  A point is             *)
(* [m, name, type, t, v]: measurement, the name tag, the probe_type / type *)
(* tag ("" when the point has none), timestamp, field value.  The store    *)
(* keeps one point per (m, tags, t): a later write replaces it.            *)

SameSeries(p, q) == p.m = q.m /\ p.name = q.name /\ p.type = q.type /\ p.t = q.t

Upsert(store, points) ==
    {q \in store : \A p \in points : ~SameSeries(p, q)} \cup points

\* The rows of  SELECT time FROM measurement
\*              WHERE time > now() - 'endDays days' AND time <= now() - 'startDays days'
TimesInRange(measurement, endDays, startDays) ==
    {p.t : p \in {q \in db : /\ q.m = measurement
                             /\ q.t > now - endDays * HoursPerDay
                             /\ q.t <= now - startDays * HoursPerDay}}

\* ORDER BY time DESC|ASC LIMIT 1
LimitOne(times, order) ==
    IF times = {} THEN <<>>
    ELSE IF order = "DESC" THEN <<SetMax(times)>> ELSE <<SetMin(times)>>

\* What influx.query may answer: the scan-ceiling error when the range is
\* wider than the ceiling, otherwise the rows, or a transient failure.
QueryReplies(measurement, endDays, startDays, order) ==
    IF endDays - startDays > scanCeiling
    THEN {[ok |-> FALSE, rows |-> <<>>, err |-> e] : e \in ScanCeilingErrors}
    ELSE {[ok |-> TRUE, rows |-> LimitOne(TimesInRange(measurement, endDays, startDays), order),
           err |-> NoError]}
         \cup (IF faultsLeft > 0
               THEN {[ok |-> FALSE, rows |-> <<>>, err |-> e] : e \in GenericStoreErrors}
               ELSE {})

---------------------------------------------------------------------------
(* The chunked query helper: queryNewestInChunks and queryOldestInChunks.  *)
(* helper.days is the loop variable (startDays of the newest search,       *)
(* endDays of the oldest search); helper.asked lists the sub-ranges        *)
(* queried so far, the store's now() at each query and what it answered.   *)

HelperIdle ==
    [pc |-> "idle", mode |-> "none", days |-> 0, result |-> <<>>,
     err |-> NoError, asked |-> <<>>]

\* Loop conditions of the two for loops.
NewestLoopCond(startDays) == startDays < config.queryLookbackDays

OldestLoopCond(endDays) == endDays > 0

\* The call of a helper, up to its first await.
HelperCall(mode) ==
    LET first == IF mode = "newest" THEN 0 ELSE config.queryLookbackDays
        enter == IF mode = "newest" THEN NewestLoopCond(first) ELSE OldestLoopCond(first)
    IN  [pc |-> IF enter THEN "loop" ELSE "returned", mode |-> mode, days |-> first,
         result |-> <<>>, err |-> NoError, asked |-> <<>>]

\* What the store answered, for the record of the search (helper.asked).
ReplyClass(reply) ==
    IF reply.ok THEN (IF Len(reply.rows) > 0 THEN "rows" ELSE "empty")
    ELSE IF reply.err \in ScanCeilingErrors THEN "limit" ELSE "error"

\* A mutated handler: a scan-limited sub-range ends the search with "no data".
AfterFileLimitStop(h, nextDays, again) == [h EXCEPT !.pc = "returned", !.result = <<>>]

\* catch (error) { if (isFileLimitError(error)) { console.warn(...); continue; } ... }
AfterFileLimit(h, nextDays, again) ==
    [h EXCEPT !.pc = IF again THEN "loop" ELSE "returned", !.days = nextDays]

\* One iteration of a helper's loop for the store's reply.
HelperIteration(h, reply, endDays, startDays, nextDays, again) ==
    LET h1 == [h EXCEPT !.asked = Append(@, [endDays |-> endDays, startDays |-> startDays,
                                             at |-> now, reply |-> ReplyClass(reply)])]
    IN  IF reply.ok
        THEN IF Len(reply.rows) > 0
             THEN [h1 EXCEPT !.pc = "returned", !.result = <<reply.rows[1]>>]
             ELSE [h1 EXCEPT !.pc = IF again THEN "loop" ELSE "returned", !.days = nextDays]
        ELSE IF isFileLimitError(reply.err)
             THEN AfterFileLimit(h1, nextDays, again)
             ELSE [h1 EXCEPT !.pc = "threw", !.err = reply.err]

\* A mutated newest search whose last sub-range runs past the lookback.
NewestEndDaysUnclamped(startDays) == startDays + config.queryChunkDays

NewestEndDays(startDays) ==
    Min(startDays + config.queryChunkDays, config.queryLookbackDays)

OldestStartDays(endDays) == Max(endDays - config.queryChunkDays, 0)

QueryNewestInChunks ==
    /\ helper.pc = "loop" /\ helper.mode = "newest"
    /\ LET startDays == helper.days
           endDays == NewestEndDays(startDays)
           nextDays == startDays + config.queryChunkDays
       IN  \E reply \in QueryReplies("apex_probe", endDays, startDays, "DESC") :
              /\ helper' = HelperIteration(helper, reply, endDays, startDays,
                                           nextDays, NewestLoopCond(nextDays))
              /\ faultsLeft' = IF reply.ok \/ isFileLimitError(reply.err)
                               THEN faultsLeft ELSE faultsLeft - 1
    /\ UNCHANGED <<envVars, db, scan, sink, recon, bf, poll, proc>>

QueryOldestInChunks ==
    /\ helper.pc = "loop" /\ helper.mode = "oldest"
    /\ LET endDays == helper.days
           startDays == OldestStartDays(endDays)
           nextDays == endDays - config.queryChunkDays
       IN  \E reply \in QueryReplies("apex_probe", endDays, startDays, "ASC") :
              /\ helper' = HelperIteration(helper, reply, endDays, startDays,
                                           nextDays, OldestLoopCond(nextDays))
              /\ faultsLeft' = IF reply.ok \/ isFileLimitError(reply.err)
                               THEN faultsLeft ELSE faultsLeft - 1
    /\ UNCHANGED <<envVars, db, scan, sink, recon, bf, poll, proc>>


---------------------------------------------------------------------------
(* The record source (the Apex controller) and its records.  A sub-reading *)
(* value is what parseFloat produced: a finite number, NaN or an infinity. *)

Fin(n) == [kind |-> "fin", num |-> n]

NaN == [kind |-> "nan", num |-> 0]

PosInf == [kind |-> "pinf", num |-> 0]

NegInf == [kind |-> "ninf", num |-> 0]

Probe(name, value) == [name |-> name, type |-> name, value |-> value]

\* The number of probes of a record of a controller with many channels.
WideProbes == 260

\* The probes of a record of the given kind of day.
ProbesOfKind(kind) ==
    CASE kind = "fin" -> <<Probe("Temp", Fin(78))>>
      [] kind = "wide" -> [k \in 1..WideProbes |-> Probe(ToString(k), Fin(k))]
      [] kind = "nan" -> <<Probe("Temp", NaN)>>
      [] kind = "inf" -> <<Probe("Temp", PosInf), Probe("pH", NegInf)>>
      [] kind = "mixed" -> <<Probe("Temp", NaN), Probe("pH", Fin(8))>>
      [] kind = "bare" -> <<>>
      [] OTHER -> <<>>

DayKinds == {"none", "fin", "nan", "inf", "mixed", "bare"}

\* source describes what the controller holds: on every calendar day one
\* record at 06:00 and one at 18:00 of the day's kind; days
\* source.from..source.to are of kind source.special, the others of kind
\* source.base.  No record is later than the controller's clock.
KindOfDay(d) ==
    IF source.from <= d /\ d <= source.to THEN source.special ELSE source.base

RecordHours == {6, 18}

LastDay == (now + tzApex) \div HoursPerDay

\* The records the controller holds on the calendar days `days`.
RecordsOnDays(days) ==
    {rec \in {[date |-> d * HoursPerDay + h, probes |-> ProbesOfKind(KindOfDay(d))] :
                d \in days, h \in RecordHours} :
        /\ KindOfDay(rec.date \div HoursPerDay) # "none"
        /\ rec.date <= now + tzApex}

SourceRecords == RecordsOnDays(0..LastDay)

RECURSIVE SortByDate(_)
SortByDate(S) ==
    IF S = {} THEN <<>>
    ELSE LET first == CHOOSE r \in S : \A q \in S : r.date <= q.date
         IN  <<first>> \o SortByDate(S \ {first})

Reverse(seq) == [i \in 1..Len(seq) |-> seq[Len(seq) + 1 - i]]

\* The records of a reply, in the order the controller sends them.
InSourceOrder(S) ==
    IF source.order = "asc" THEN SortByDate(S) ELSE Reverse(SortByDate(S))

\* formatApexDate: the sdate parameter is the local wall clock of the date.
formatApexDate(instant) == instant + tzLocal

\* getHistoricalDatalog(startDate, days): the records of `days` days from sdate.
HistoricalRecords(startDate, days) ==
    LET sdate == formatApexDate(startDate)
        until == sdate + days * HoursPerDay
    IN  InSourceOrder({r \in RecordsOnDays((sdate \div HoursPerDay)..(until \div HoursPerDay)) :
                          r.date >= sdate /\ r.date < until})

---------------------------------------------------------------------------
(* ApexClient.getDataCoverage: the chunked range scanner. *)

totalDaysToCheck == 60

chunkSizeDays == 3

totalChunks == (totalDaysToCheck + chunkSizeDays - 1) \div chunkSizeDays

\* A mutated chunk start that advances one day per chunk.
chunkDateUnscaled(chunkIndex) ==
    now - totalDaysToCheck * HoursPerDay + chunkIndex * HoursPerDay

\* startDate = now - 60 days; chunkDate = startDate + chunkIndex * 3 days
chunkDate(chunkIndex) ==
    now - totalDaysToCheck * HoursPerDay + chunkIndex * chunkSizeDays * HoursPerDay

daysInChunk(chunkIndex) ==
    Min(chunkSizeDays, totalDaysToCheck - chunkIndex * chunkSizeDays)

ChunkRecords(chunkIndex) == HistoricalRecords(chunkDate(chunkIndex), daysInChunk(chunkIndex))

\* Number.isFinite
IsFinite(value) == value.kind = "fin"

\* isNaN
IsNaN(value) == value.kind = "nan"

\* A mutated classifier: "not NaN" instead of "finite".
hasUsefulDataNotNaN(record) ==
    \E i \in 1..Len(record.probes) : ~IsNaN(record.probes[i].value)

hasUsefulData(record) ==
    \E i \in 1..Len(record.probes) : IsFinite(record.probes[i].value)

\* A mutated date part: the date with its hour ("MM/DD/YYYY HH").
extractDatePartWithHour(dateStr) == dateStr

\* substring(0, 10) of "MM/DD/YYYY HH:MM:SS"
extractDatePart(dateStr) == dateStr \div HoursPerDay

\* Math.round(x * 100) / 100 for x = num / den * 100, in hundredths.
RoundToHundredths(num, den) == (2 * num * 100 * 100 + den) \div (2 * den)

ScanIdle ==
    [pc |-> "idle", chunkIndex |-> 0, oldestUsefulDate |-> <<>>, newestUsefulDate |-> <<>>,
     usefulRecordCount |-> 0, totalRecordsFetched |-> 0, uniqueDatesWithData |-> {},
     hasOnChunk |-> FALSE, fetchLog |-> <<>>, spans |-> <<>>, errorsLogged |-> 0,
     result |-> <<>>]

SinkIdle ==
    [pc |-> "idle", chunk |-> 0, records |-> <<>>, calls |-> <<>>,
     points |-> <<>>, i |-> 0, err |-> NoError]

\* The call of getDataCoverage, up to its first await.
ScanCall(hasOnChunk) == [ScanIdle EXCEPT !.pc = "fetch", !.hasOnChunk = hasOnChunk]

\* The statements after the loop: the DataCoverageResult.
CoverageResult(s) ==
    IF s.usefulRecordCount = 0
    THEN [totalRecords |-> s.totalRecordsFetched, usefulRecords |-> 0,
          oldestUsefulRecordDate |-> <<>>, newestUsefulRecordDate |-> <<>>,
          totalDays |-> totalDaysToCheck, daysWithData |-> 0, coveragePercent |-> 0]
    ELSE LET daysWithData == Cardinality(s.uniqueDatesWithData)
         IN  [totalRecords |-> s.totalRecordsFetched, usefulRecords |-> s.usefulRecordCount,
              oldestUsefulRecordDate |-> s.oldestUsefulDate,
              newestUsefulRecordDate |-> s.newestUsefulDate,
              totalDays |-> totalDaysToCheck, daysWithData |-> daysWithData,
              coveragePercent |-> IF totalDaysToCheck > 0
                                  THEN RoundToHundredths(daysWithData, totalDaysToCheck)
                                  ELSE 0]

\* The end of one loop iteration: the next chunk, or the result.
NextChunk(s) ==
    LET s1 == [s EXCEPT !.chunkIndex = @ + 1]
    IN  IF s1.chunkIndex < totalChunks
        THEN [s1 EXCEPT !.pc = "fetch"]
        ELSE [s1 EXCEPT !.pc = "done", !.result = <<CoverageResult(s1)>>]

\* A mutated handler: a failed chunk ends the scan with the error.
ScanCatchRethrow(s) == [s EXCEPT !.pc = "threw", !.errorsLogged = @ + 1]

\* catch (error) { console.log(`[Error] ${dateStr}: Failed to fetch`); }
ScanCatch(s) == NextChunk([s EXCEPT !.errorsLogged = @ + 1])

\* The counters after a fetched chunk (the body of the try up to onChunk).
CountChunk(s, records) ==
    LET usefulInChunk == SelectSeq(records, hasUsefulData)
    IN  IF Len(usefulInChunk) > 0
        THEN [s EXCEPT !.totalRecordsFetched = @ + Len(records),
                       !.usefulRecordCount = @ + Len(usefulInChunk),
                       !.oldestUsefulDate = IF @ = <<>> THEN <<usefulInChunk[1].date>> ELSE @,
                       !.newestUsefulDate = <<usefulInChunk[Len(usefulInChunk)].date>>,
                       !.uniqueDatesWithData =
                           @ \cup {extractDatePart(usefulInChunk[k].date) :
                                      k \in 1..Len(usefulInChunk)}]
        ELSE [s EXCEPT !.totalRecordsFetched = @ + Len(records)]

\* A mutated scanner that does not await onChunk before the next chunk.
AwaitOnChunkNot(s) == NextChunk(s)

\* await onChunk(datalog)
AwaitOnChunk(s) == [s EXCEPT !.pc = "awaitSink"]

\* The record of a call of getHistoricalDatalog(chunkDate, daysInChunk):
\* how it ended, and the start and length it asked for.
LogFetch(s, outcome) ==
    [s EXCEPT !.fetchLog = Append(@, outcome),
              !.spans = Append(@, [start |-> chunkDate(s.chunkIndex),
                                   days |-> daysInChunk(s.chunkIndex)])]

\* One loop iteration up to its await of onChunk: the fetch of the chunk
\* fails, or its records are counted and handed to the sink.
ScanFetch ==
    /\ scan.pc = "fetch"
    /\ IF scan.chunkIndex \in failChunks
       THEN /\ scan' = ScanCatch(LogFetch(scan, "failed"))
            /\ sink' = sink
       ELSE LET records == ChunkRecords(scan.chunkIndex)
                counted == CountChunk(LogFetch(scan, "ok"), records)
                useful == \E k \in 1..Len(records) : hasUsefulData(records[k])
            IN  IF useful /\ scan.hasOnChunk
                THEN /\ scan' = AwaitOnChunk(counted)
                     /\ sink' = [sink EXCEPT !.pc = "called", !.chunk = scan.chunkIndex,
                                            !.records = records,
                                            !.calls = Append(@, scan.chunkIndex)]
                ELSE /\ scan' = NextChunk(counted)
                     /\ sink' = sink
    /\ UNCHANGED <<envVars, db, faultsLeft, helper, recon, bf, poll, proc>>

\* onChunk settled: the iteration's progress line, or the catch when the
\* callback rejected.
ScanResume ==
    /\ scan.pc = "awaitSink"
    /\ sink.pc \in {"resolved", "rejected"}
    /\ scan' = IF sink.pc = "rejected" THEN ScanCatch(scan) ELSE NextChunk(scan)
    /\ sink' = [sink EXCEPT !.pc = "idle", !.records = <<>>, !.points = <<>>, !.i = 0]
    /\ UNCHANGED <<envVars, db, faultsLeft, helper, recon, bf, poll, proc>>

---------------------------------------------------------------------------
(* The other replies of the controller and of the store. *)

\* getDatalog(): the records of the last day up to the controller's clock.
CurrentRecords ==
    LET apexNow == now + tzApex
    IN  InSourceOrder({r \in RecordsOnDays(((apexNow \div HoursPerDay) - 1)..(apexNow \div HoursPerDay)) :
                          r.date > apexNow - HoursPerDay /\ r.date <= apexNow})

\* getHistoricalOutlog(startDate, days): one outlet record at 06:00 of
\* every day the controller holds probe records for.
HistoricalOutlog(startDate, days) ==
    LET sdate == formatApexDate(startDate)
        until == sdate + days * HoursPerDay
        held == {[date |-> d * HoursPerDay + 6, name |-> "Pump", value |-> "ON"] :
                    d \in {e \in (sdate \div HoursPerDay)..(until \div HoursPerDay) :
                              KindOfDay(e) # "none"}}
    IN  SortByDate({r \in held : r.date >= sdate /\ r.date < until /\ r.date <= now + tzApex})

\* The snapshot of a controller with two outlets.
DefaultStatus ==
    <<[name |-> "Pump", type |-> "outlet", status |-> <<"AON">>],
      [name |-> "Heater", type |-> "outlet", status |-> <<"AOF">>]>>

\* getStatus(): the snapshot of every output.
StatusOutputs == status

\* What a fetch from the controller may answer: its reply, or an HTTP error.
FetchReplies(reply) ==
    {[ok |-> TRUE, val |-> reply, err |-> NoError]}
    \cup (IF faultsLeft > 0 THEN {[ok |-> FALSE, val |-> <<>>, err |-> ErrFetch]} ELSE {})

\* What influx.writePoints may answer: an empty write returns at once,
\* another one is stored or fails.
WriteReplies(points) ==
    {[ok |-> TRUE, err |-> NoError]}
    \cup (IF faultsLeft > 0 /\ Len(points) > 0
          THEN {[ok |-> FALSE, err |-> e] : e \in GenericStoreErrors}
          ELSE {})

\* The budget of injected failures after a reply.
FaultsAfter(reply) == IF reply.ok THEN faultsLeft ELSE faultsLeft - 1

---------------------------------------------------------------------------
(* influx/mapper.ts and the date parsing of index.ts. *)

\* mapper.ts: Date.UTC(wall clock) - timezoneOffset hours
parseApexDate(dateStr, timezoneOffset) == dateStr - timezoneOffset

\* A mutated index.ts parser that uses the controller's offset.
parseApexDateLocalFixed(dateStr) == dateStr - tzApex

\* index.ts: new Date(year, month - 1, day, hours, minutes, seconds), the
\* wall clock read in the process's local timezone.
parseApexDateLocal(dateStr) == dateStr - tzLocal

mapRecordToPoints(record, timezoneOffset) ==
    LET timestamp == parseApexDate(record.date, timezoneOffset)
        kept == SelectSeq(record.probes, LAMBDA probe : ~IsNaN(probe.value))
    IN  [k \in 1..Len(kept) |->
            [m |-> "apex_probe", name |-> kept[k].name, type |-> kept[k].type,
             t |-> timestamp, v |-> kept[k].value]]

RECURSIVE mapAllRecordsToPoints(_, _)
mapAllRecordsToPoints(records, timezoneOffset) ==
    IF records = <<>> THEN <<>>
    ELSE mapRecordToPoints(Head(records), timezoneOffset)
         \o mapAllRecordsToPoints(Tail(records), timezoneOffset)

\* A mutated mapper that takes the first record for the latest.
mapDatalogToPointsFirst(records, timezoneOffset) ==
    IF records = <<>> THEN <<>>
    ELSE mapRecordToPoints(records[1], timezoneOffset)

mapDatalogToPoints(records, timezoneOffset) ==
    IF records = <<>> THEN <<>>
    ELSE mapRecordToPoints(records[Len(records)], timezoneOffset)

mapOutletRecordToPoint(record, timezoneOffset) ==
    [m |-> "apex_outlet", name |-> record.name, type |-> "",
     t |-> parseApexDate(record.date, timezoneOffset),
     v |-> Fin(IF record.value = "ON" THEN 1 ELSE 0)]

mapAllOutlogToPoints(records, timezoneOffset) ==
    [k \in 1..Len(records) |-> mapOutletRecordToPoint(records[k], timezoneOffset)]

\* A mutated mapper that takes every automatic state for "off".
mapStatusToOutletPointsManualOnly(outputs, timestamp) ==
    [k \in 1..Len(outputs) |->
        [m |-> "apex_outlet", name |-> outputs[k].name, type |-> outputs[k].type,
         t |-> timestamp,
         v |-> Fin(IF outputs[k].status[1] = "ON" THEN 1 ELSE 0)]]

mapStatusToOutletPoints(outputs, timestamp) ==
    [k \in 1..Len(outputs) |->
        [m |-> "apex_outlet", name |-> outputs[k].name, type |-> outputs[k].type,
         t |-> timestamp,
         v |-> Fin(IF outputs[k].status[1] \in {"ON", "AON"} THEN 1 ELSE 0)]]

\* A mutated batch whose end index is inclusive: one point too many.
BatchInclusiveEnd(points, i, size) ==
    SubSeq(points, i + 1, Min(i + size + 1, Len(points)))

\* points[i .. end-1] of the batch loops (0-based i).
Batch(points, i, batchSize) ==
    SubSeq(points, i + 1, Min(i + batchSize, Len(points)))

SeqToSet(seq) == {seq[k] : k \in 1..Len(seq)}

---------------------------------------------------------------------------
(* index.ts: the activations of backfillRecentGaps, checkDatabaseFreshness,*)
(* poll and main.  Each is a record with its position (pc), its locals,   *)
(* and, once it ended, how its promise settled (outcome).                 *)

batchSize == 500

ReconIdle ==
    [pc |-> "idle", outcome |-> "pending", report |-> "none",
     latestDate |-> <<>>, apexTime |-> <<>>, newestDbTimeBefore |-> <<>>,
     cutoffTimeMs |-> 0, pointsWrittenDuringCoverage |-> 0, recordsSkipped |-> 0,
     coverage |-> <<>>, newestResult |-> <<>>, oldestDbTime |-> <<>>,
     delivered |-> {}, forwarded |-> {}, sinkFailures |-> 0,
     limitHits |-> 0, writeLog |-> <<>>]

BfIdle ==
    [pc |-> "idle", outcome |-> "pending", failed |-> FALSE, failedAt |-> "none",
     datalog |-> <<>>, outlog |-> <<>>, points |-> <<>>, i |-> 0,
     probeCount |-> 0, outletCount |-> 0,
     totalWritten |-> 0, report |-> "none", writeLog |-> <<>>]

PollIdle ==
    [pc |-> "idle", outcome |-> "pending", ticks |-> 0, failures |-> 0,
     lastFailedTick |-> 0, timestamp |-> 0, points |-> <<>>]

ProcIdle ==
    [pc |-> "idle", dbAtLaunch |-> {}, faultsAtLaunch |-> 0, launched |-> FALSE,
     signals |-> <<>>, closeCalls |-> 0, closing |-> 0]

---------------------------------------------------------------------------
(* backfillRecentGaps *)

\* A mutated handler that lets the failure out of the routine.
BackfillCatchRethrow(b, error) ==
    [b EXCEPT !.pc = "done", !.outcome = "rejected", !.failed = TRUE,
              !.failedAt = b.pc, !.points = <<>>, !.i = 0]

\* catch (error) { console.error('Backfill failed:', error); }
BackfillCatch(b, error) ==
    [b EXCEPT !.pc = "done", !.outcome = "resolved", !.failed = TRUE,
              !.failedAt = b.pc, !.points = <<>>, !.i = 0]

\* The result line: the routine returns.
BackfillReturn(b) ==
    [b EXCEPT !.pc = "done", !.outcome = "resolved", !.points = <<>>, !.i = 0,
              !.report = IF b.probeCount = 0 /\ b.outletCount = 0
                         THEN "noRecords" ELSE "complete"]

\* if (outlog.records.length > 0) { ... writeBatched(influx, outletPoints.outlets) }
BackfillOutlets(b) ==
    IF Len(b.outlog) > 0
    THEN [b EXCEPT !.pc = "writeOutlets", !.i = 0, !.totalWritten = 0,
                   !.points = mapAllOutlogToPoints(b.outlog, tzApex)]
    ELSE BackfillReturn(b)

\* if (datalog.records.length > 0) { ... writeBatched(influx, probePoints.probes) }
BackfillProbes(b) ==
    IF Len(b.datalog) > 0 /\ Len(mapAllRecordsToPoints(b.datalog, tzApex)) > 0
    THEN [b EXCEPT !.pc = "writeProbes", !.i = 0, !.totalWritten = 0,
                   !.points = mapAllRecordsToPoints(b.datalog, tzApex)]
    ELSE BackfillOutlets(b)

\* The call of backfillRecentGaps, up to its first await.
BackfillCall == [BfIdle EXCEPT !.pc = "fetchDatalog"]

BackfillFetchDatalog ==
    /\ bf.pc = "fetchDatalog"
    /\ \E reply \in FetchReplies(HistoricalRecords(now - HoursPerDay, 1)) :
          /\ bf' = IF reply.ok
                   THEN [bf EXCEPT !.pc = "fetchOutlog", !.datalog = reply.val]
                   ELSE BackfillCatch(bf, reply.err)
          /\ faultsLeft' = FaultsAfter(reply)
    /\ UNCHANGED <<envVars, db, helper, scan, sink, recon, poll, proc>>

BackfillFetchOutlog ==
    /\ bf.pc = "fetchOutlog"
    /\ \E reply \in FetchReplies(HistoricalOutlog(now - HoursPerDay, 1)) :
          /\ bf' = IF reply.ok
                   THEN BackfillProbes([bf EXCEPT !.outlog = reply.val])
                   ELSE BackfillCatch(bf, reply.err)
          /\ faultsLeft' = FaultsAfter(reply)
    /\ UNCHANGED <<envVars, db, helper, scan, sink, recon, poll, proc>>

\* One iteration of writeBatched: the write of a batch and the delay.
BackfillWrite ==
    /\ bf.pc \in {"writeProbes", "writeOutlets"}
    /\ LET batch == Batch(bf.points, bf.i, batchSize)
       IN  \E reply \in WriteReplies(batch) :
              /\ db' = IF reply.ok THEN Upsert(db, SeqToSet(batch)) ELSE db
              /\ faultsLeft' = FaultsAfter(reply)
              /\ LET logged == [bf EXCEPT !.writeLog = Append(@, [batch |-> batch,
                                                                     ok |-> reply.ok])]
                     wrote == [logged EXCEPT !.totalWritten = @ + Len(batch)]
                 IN  bf' = IF ~reply.ok THEN BackfillCatch(logged, reply.err)
                           ELSE IF bf.i + batchSize < Len(bf.points)
                           THEN [wrote EXCEPT !.i = @ + batchSize]
                           ELSE IF bf.pc = "writeProbes"
                           THEN BackfillOutlets([wrote EXCEPT !.probeCount = wrote.totalWritten])
                           ELSE BackfillReturn([wrote EXCEPT !.outletCount = wrote.totalWritten])
    /\ UNCHANGED <<envVars, helper, scan, sink, recon, poll, proc>>

---------------------------------------------------------------------------
(* checkDatabaseFreshness: the reconciliation pass and its onChunk sink. *)

\* A mutated handler that lets every failure but the scan ceiling out.
FreshnessCatchRethrow(r, error) ==
    IF isFileLimitError(error)
    THEN [r EXCEPT !.pc = "done", !.outcome = "resolved", !.report = "fileLimit"]
    ELSE [r EXCEPT !.pc = "done", !.outcome = "rejected", !.report = "failed"]

\* catch (error) { if (isFileLimitError(error)) { ...guidance...; return; }
\*                 console.error('Failed to check database freshness:', error); }
FreshnessCatch(r, error) ==
    [r EXCEPT !.pc = "done", !.outcome = "resolved",
              !.report = IF isFileLimitError(error) THEN "fileLimit" ELSE "failed"]

\* The sub-ranges of a helper call that the store rejected for their width.
LimitHits(h) == Cardinality({k \in 1..Len(h.asked) : h.asked[k].reply = "limit"})

\* The call of checkDatabaseFreshness, up to its first await.
FreshnessCall == [ReconIdle EXCEPT !.pc = "getDatalog"]

\* A mutated pass without the check for an empty record set.
FreshnessGetDatalogNoCheck ==
    /\ recon.pc = "getDatalog"
    /\ \E reply \in FetchReplies(CurrentRecords) :
          /\ faultsLeft' = FaultsAfter(reply)
          /\ IF ~reply.ok
             THEN recon' = FreshnessCatch(recon, reply.err) /\ helper' = helper
             ELSE /\ recon' = [recon EXCEPT
                                  !.pc = "preCheck",
                                  !.latestDate = [k \in 1..Min(1, Len(reply.val)) |->
                                                     reply.val[Len(reply.val)].date],
                                  !.apexTime = [k \in 1..Min(1, Len(reply.val)) |->
                                                   parseApexDateLocal(reply.val[Len(reply.val)].date)]]
                  /\ helper' = HelperCall("newest")
    /\ UNCHANGED <<envVars, db, scan, sink, bf, poll, proc>>

FreshnessGetDatalog ==
    /\ recon.pc = "getDatalog"
    /\ \E reply \in FetchReplies(CurrentRecords) :
          /\ faultsLeft' = FaultsAfter(reply)
          /\ IF ~reply.ok
             THEN recon' = FreshnessCatch(recon, reply.err) /\ helper' = helper
             ELSE IF Len(reply.val) = 0
             THEN /\ recon' = [recon EXCEPT !.pc = "done", !.outcome = "resolved",
                                            !.report = "noRecords"]
                  /\ helper' = helper
             ELSE /\ recon' = [recon EXCEPT
                                  !.pc = "preCheck",
                                  !.latestDate = <<reply.val[Len(reply.val)].date>>,
                                  !.apexTime = <<parseApexDateLocal(reply.val[Len(reply.val)].date)>>]
                  /\ helper' = HelperCall("newest")
    /\ UNCHANGED <<envVars, db, scan, sink, bf, poll, proc>>

\* The cutoff is read once, from the result of the pre-check query, and
\* the scan is started with the sink.
FreshnessPreCheck ==
    /\ recon.pc = "preCheck"
    /\ helper.pc \in {"returned", "threw"}
    /\ IF helper.pc = "threw"
       THEN recon' = FreshnessCatch(recon, helper.err) /\ scan' = scan
       ELSE /\ recon' = [recon EXCEPT
                            !.pc = "scanning",
                            !.limitHits = @ + LimitHits(helper),
                            !.newestDbTimeBefore = helper.result,
                            !.cutoffTimeMs = IF config.forceFullSync \/ helper.result = <<>>
                                             THEN 0 ELSE helper.result[1]]
            /\ scan' = ScanCall(TRUE)
    /\ helper' = HelperIdle
    /\ UNCHANGED <<envVars, db, faultsLeft, sink, bf, poll, proc>>

\* A mutated filter that compares the instant the mapper stamps.
RecordsToProcessMapperTime(r, records) ==
    IF r.newestDbTimeBefore # <<>> /\ ~config.forceFullSync
    THEN SelectSeq(records, LAMBDA record :
                      parseApexDate(record.date, tzApex) > r.cutoffTimeMs)
    ELSE records

\* newestDbTimeBefore && !config.forceFullSync ? records.filter(...) : records
RecordsToProcess(r, records) ==
    IF r.newestDbTimeBefore # <<>> /\ ~config.forceFullSync
    THEN SelectSeq(records, LAMBDA record : parseApexDateLocal(record.date) > r.cutoffTimeMs)
    ELSE records

\* A mutated sink that writes the records in the order the source sent them.
SortRecordsNot(records) == records

\* recordsToProcess.sort((a, b) => parseApexDate(a.date) - parseApexDate(b.date))
SortRecords(records) == SortByDate(SeqToSet(records))

\* The sink up to its first await: filter, sort, map, and the first batch.
OnChunkStart ==
    /\ recon.pc = "scanning"
    /\ sink.pc = "called"
    /\ LET recordsToProcess == RecordsToProcess(recon, sink.records)
           points == mapAllRecordsToPoints(SortRecords(recordsToProcess), tzApex)
       IN  /\ recon' = [recon EXCEPT
                           !.recordsSkipped = @ + Len(sink.records) - Len(recordsToProcess),
                           !.delivered = @ \cup SeqToSet(sink.records),
                           !.forwarded = @ \cup SeqToSet(recordsToProcess)]
           /\ sink' = IF Len(recordsToProcess) = 0
                      THEN [sink EXCEPT !.pc = "resolved"]
                      ELSE IF Len(points) = 0
                      THEN [sink EXCEPT !.pc = "chunkDelay"]
                      ELSE [sink EXCEPT !.pc = "writing", !.points = points, !.i = 0]
    /\ UNCHANGED <<envVars, db, faultsLeft, helper, scan, bf, poll, proc>>

\* The record of one writePoints call of the pass: the chunk it belongs to,
\* the batch, whether the store took it, and the fetches made so far.
WriteEntry(batch, ok) ==
    [chunk |-> sink.chunk, batch |-> batch, ok |-> ok, fetches |-> Len(scan.fetchLog)]

\* await influx.writePoints(batch) and the delay after the batch.
OnChunkWrite ==
    /\ sink.pc = "writing"
    /\ LET batch == Batch(sink.points, sink.i, batchSize)
       IN  \E reply \in WriteReplies(batch) :
              /\ db' = IF reply.ok THEN Upsert(db, SeqToSet(batch)) ELSE db
              /\ faultsLeft' = FaultsAfter(reply)
              /\ LET logged == [recon EXCEPT !.writeLog = Append(@, WriteEntry(batch, reply.ok))]
                 IN  IF ~reply.ok
                     THEN /\ sink' = [sink EXCEPT !.pc = "rejected", !.err = reply.err]
                          /\ recon' = [logged EXCEPT !.sinkFailures = @ + 1]
                     ELSE IF sink.i + batchSize < Len(sink.points)
                     THEN /\ sink' = [sink EXCEPT !.i = @ + batchSize]
                          /\ recon' = logged
                     ELSE /\ sink' = [sink EXCEPT !.pc = "chunkDelay"]
                          /\ recon' = [logged EXCEPT
                                          !.pointsWrittenDuringCoverage = @ + Len(sink.points)]
    /\ UNCHANGED <<envVars, helper, scan, bf, poll, proc>>

\* The delay between chunks: the sink's promise resolves.
OnChunkDelay ==
    /\ sink.pc = "chunkDelay"
    /\ sink' = [sink EXCEPT !.pc = "resolved"]
    /\ UNCHANGED <<envVars, db, faultsLeft, helper, scan, recon, bf, poll, proc>>

\* The scan returned its coverage: the newest-timestamp query of the report.
FreshnessAfterScan ==
    /\ recon.pc = "scanning"
    /\ scan.pc = "done"
    /\ recon' = [recon EXCEPT !.pc = "postNewest", !.coverage = scan.result]
    /\ helper' = HelperCall("newest")
    /\ scan' = [scan EXCEPT !.pc = "returned"]
    /\ UNCHANGED <<envVars, db, faultsLeft, sink, bf, poll, proc>>

\* The newest timestamp arrived: getOldestDbTime starts the oldest search.
FreshnessAfterNewest ==
    /\ recon.pc = "postNewest"
    /\ helper.pc \in {"returned", "threw"}
    /\ IF helper.pc = "threw"
       THEN recon' = FreshnessCatch(recon, helper.err) /\ helper' = HelperIdle
       ELSE /\ recon' = [recon EXCEPT !.pc = "postOldest", !.newestResult = helper.result,
                                       !.limitHits = @ + LimitHits(helper)]
            /\ helper' = HelperCall("oldest")
    /\ UNCHANGED <<envVars, db, faultsLeft, scan, sink, bf, poll, proc>>

\* The sign of apexTime - newestDbTime in the report.
StatusLine(apexTime, newestDbTime) ==
    IF apexTime - newestDbTime > 0 THEN "behind"
    ELSE IF apexTime - newestDbTime < 0 THEN "ahead" ELSE "upToDate"

\* getOldestDbTime returned (null when its search threw): the report.
FreshnessReport ==
    /\ recon.pc = "postOldest"
    /\ helper.pc \in {"returned", "threw"}
    /\ recon' = [recon EXCEPT
                    !.pc = "done", !.outcome = "resolved",
                    !.limitHits = @ + LimitHits(helper),
                    !.oldestDbTime = IF helper.pc = "threw" THEN <<>> ELSE helper.result,
                    !.report = IF recon.newestResult = <<>> THEN "firstRun"
                               ELSE StatusLine(recon.apexTime[1], recon.newestResult[1])]
    /\ helper' = HelperIdle
    /\ UNCHANGED <<envVars, db, faultsLeft, scan, sink, bf, poll, proc>>

---------------------------------------------------------------------------
(* poll: one live poll tick. *)

\* A mutated tick that lets the failure out of poll.
PollCatchRethrow(p, error) ==
    [p EXCEPT !.pc = "done", !.outcome = "rejected", !.failures = @ + 1,
              !.lastFailedTick = p.ticks, !.points = <<>>]

\* catch (error) { console.error(`[...] Poll failed:`, error); }
PollCatch(p, error) ==
    [p EXCEPT !.pc = "done", !.outcome = "resolved", !.failures = @ + 1,
              !.lastFailedTick = p.ticks, !.points = <<>>]

\* The call of poll, up to its first await.
PollCall(p) ==
    [p EXCEPT !.pc = "getDatalog", !.outcome = "pending", !.ticks = @ + 1,
              !.timestamp = now, !.points = <<>>]

PollGetDatalog ==
    /\ poll.pc = "getDatalog"
    /\ \E reply \in FetchReplies(CurrentRecords) :
          /\ faultsLeft' = FaultsAfter(reply)
          /\ poll' = IF reply.ok
                     THEN [poll EXCEPT !.pc = "writeProbes",
                                       !.points = mapDatalogToPoints(reply.val, tzApex)]
                     ELSE PollCatch(poll, reply.err)
    /\ UNCHANGED <<envVars, db, helper, scan, sink, recon, bf, proc>>

PollWriteProbes ==
    /\ poll.pc = "writeProbes"
    /\ \E reply \in WriteReplies(poll.points) :
          /\ db' = IF reply.ok THEN Upsert(db, SeqToSet(poll.points)) ELSE db
          /\ faultsLeft' = FaultsAfter(reply)
          /\ poll' = IF reply.ok THEN [poll EXCEPT !.pc = "getStatus", !.points = <<>>]
                     ELSE PollCatch(poll, reply.err)
    /\ UNCHANGED <<envVars, helper, scan, sink, recon, bf, proc>>

PollGetStatus ==
    /\ poll.pc = "getStatus"
    /\ \E reply \in FetchReplies(StatusOutputs) :
          /\ faultsLeft' = FaultsAfter(reply)
          /\ poll' = IF reply.ok
                     THEN [poll EXCEPT !.pc = "writeOutlets",
                                       !.points = mapStatusToOutletPoints(reply.val, poll.timestamp)]
                     ELSE PollCatch(poll, reply.err)
    /\ UNCHANGED <<envVars, db, helper, scan, sink, recon, bf, proc>>

PollWriteOutlets ==
    /\ poll.pc = "writeOutlets"
    /\ \E reply \in WriteReplies(poll.points) :
          /\ db' = IF reply.ok THEN Upsert(db, SeqToSet(poll.points)) ELSE db
          /\ faultsLeft' = FaultsAfter(reply)
          /\ poll' = IF reply.ok
                     THEN [poll EXCEPT !.pc = "done", !.outcome = "resolved", !.points = <<>>]
                     ELSE PollCatch(poll, reply.err)
    /\ UNCHANGED <<envVars, helper, scan, sink, recon, bf, proc>>

---------------------------------------------------------------------------
(* main: startup and the scheduler. *)

\* A mutated main that calls the backfill without awaiting it.
MainStartNoAwait ==
    /\ proc.pc = "start"
    /\ bf' = BackfillCall
    /\ recon' = FreshnessCall
    /\ poll' = PollCall(poll)
    /\ proc' = [proc EXCEPT !.pc = "awaitPoll", !.launched = TRUE,
                            !.dbAtLaunch = db, !.faultsAtLaunch = faultsLeft]
    /\ UNCHANGED <<envVars, db, faultsLeft, helper, scan, sink>>

\* await backfillRecentGaps(influx, apexClient)
MainStart ==
    /\ proc.pc = "start"
    /\ bf' = BackfillCall
    /\ proc' = [proc EXCEPT !.pc = "awaitBackfill"]
    /\ UNCHANGED <<envVars, db, faultsLeft, helper, scan, sink, recon, poll>>

\* The backfill settled: a rejection ends main (process.exit(1)); otherwise
\* the pass is launched without await and the first poll is called.
MainAfterBackfill ==
    /\ proc.pc = "awaitBackfill"
    /\ bf.pc = "done"
    /\ IF bf.outcome = "rejected"
       THEN /\ proc' = [proc EXCEPT !.pc = "crashed"]
            /\ UNCHANGED <<recon, poll>>
       ELSE /\ proc' = [proc EXCEPT !.pc = "awaitPoll", !.launched = TRUE,
                                    !.dbAtLaunch = db, !.faultsAtLaunch = faultsLeft]
            /\ recon' = FreshnessCall
            /\ poll' = PollCall(poll)
    /\ UNCHANGED <<envVars, db, faultsLeft, helper, scan, sink, bf>>

\* await poll() returned: cron.schedule(...)
MainAfterPoll ==
    /\ proc.pc = "awaitPoll"
    /\ poll.pc = "done"
    /\ proc' = [proc EXCEPT !.pc = IF poll.outcome = "rejected" THEN "crashed" ELSE "scheduled"]
    /\ UNCHANGED <<envVars, db, faultsLeft, helper, scan, sink, recon, bf, poll>>

---------------------------------------------------------------------------
(* SpecQuery: one call of a chunked query helper on drawn store contents,  *)
(* configuration and scan ceiling.                                         *)

MaxAge == 5

MaxChunkDays == 3

MaxLookback == 4

MaxCeiling == 3

MaxFaults == 1

ProbePoint(t) == [m |-> "apex_probe", name |-> "Temp", type |-> "Temp", t |-> t, v |-> Fin(78)]

OutletPoint(t) == [m |-> "apex_outlet", name |-> "Pump", type |-> "", t |-> t, v |-> Fin(1)]

QNow == (MaxAge + 2) * HoursPerDay

\* Probe points of the given ages (days before now; -1 is a day ahead of
\* the store's clock), beside outlet points the searches must not see.
PointsAtAges(ages) ==
    {ProbePoint(QNow - a * HoursPerDay) : a \in ages}
    \cup {OutletPoint(QNow), OutletPoint(QNow - MaxAge * HoursPerDay)}

InitQuery ==
    /\ now = QNow
    /\ tzLocal = 0 /\ tzApex = 0
    /\ config \in [queryChunkDays : 1..MaxChunkDays, queryLookbackDays : 1..MaxLookback,
                   forceFullSync : {FALSE}]
    /\ source = {}
    /\ scanCeiling \in 1..MaxCeiling
    /\ failChunks = {}
    /\ status = DefaultStatus
    /\ db \in {PointsAtAges(ages) : ages \in SUBSET (-1..MaxAge)}
    /\ faultsLeft \in {0, MaxFaults}
    /\ \E mode \in {"newest", "oldest"} : helper = HelperCall(mode)
    /\ scan = ScanIdle /\ sink = SinkIdle /\ recon = ReconIdle
    /\ bf = BfIdle /\ poll = PollIdle /\ proc = ProcIdle

NextQuery == QueryNewestInChunks \/ QueryOldestInChunks

SpecQuery == InitQuery /\ [][NextQuery]_vars

---------------------------------------------------------------------------
(* SpecClock: one call of a chunked query helper while the store's clock   *)
(* runs: now() is evaluated by the store at every query.                   *)

MaxClockSteps == 2

\* Probe points an hour past the given ages.
PointsPastAges(ages) == {ProbePoint(QNow - a * HoursPerDay + 1) : a \in ages}

InitClock ==
    /\ now = QNow
    /\ tzLocal = 0 /\ tzApex = 0
    /\ config \in [queryChunkDays : 1..MaxChunkDays, queryLookbackDays : 1..MaxLookback,
                   forceFullSync : {FALSE}]
    /\ source = {}
    /\ scanCeiling = MaxCeiling
    /\ failChunks = {}
    /\ status = DefaultStatus
    /\ db \in {PointsPastAges(ages) : ages \in SUBSET (1..MaxLookback)}
    /\ faultsLeft = 0
    /\ \E mode \in {"newest", "oldest"} : helper = HelperCall(mode)
    /\ scan = ScanIdle /\ sink = SinkIdle /\ recon = ReconIdle
    /\ bf = BfIdle /\ poll = PollIdle /\ proc = ProcIdle

\* Time passes between two awaits of the search.
ClockAdvances ==
    /\ helper.pc = "loop"
    /\ now < QNow + MaxClockSteps
    /\ now' = now + 1
    /\ UNCHANGED <<tzLocal, tzApex, config, source, scanCeiling, failChunks, status, db,
                   faultsLeft, helper, scan, sink, recon, bf, poll, proc>>

NextClock == QueryNewestInChunks \/ QueryOldestInChunks \/ ClockAdvances

SpecClock == InitClock /\ [][NextClock]_vars

---------------------------------------------------------------------------
(* SpecConfig: one call of a chunked query helper for any integer chunk    *)
(* size and lookback, zero and negative ones included.  The exploration    *)
(* of a search stops after MaxQueries queries.                             *)

MaxQueries == 6

MinDays == -1

InitConfig ==
    /\ now = QNow
    /\ tzLocal = 0 /\ tzApex = 0
    /\ config \in [queryChunkDays : MinDays..MaxChunkDays,
                   queryLookbackDays : MinDays..MaxLookback, forceFullSync : {FALSE}]
    /\ source = {}
    /\ scanCeiling \in {1, MaxCeiling}
    /\ failChunks = {}
    /\ status = DefaultStatus
    /\ db \in {PointsAtAges(ages) : ages \in {{}, {0}, {MaxAge}}}
    /\ faultsLeft \in {0, MaxFaults}
    /\ \E mode \in {"newest", "oldest"} : helper = HelperCall(mode)
    /\ scan = ScanIdle /\ sink = SinkIdle /\ recon = ReconIdle
    /\ bf = BfIdle /\ poll = PollIdle /\ proc = ProcIdle

NextConfig ==
    /\ Len(helper.asked) < MaxQueries
    /\ (QueryNewestInChunks \/ QueryOldestInChunks)

SpecConfig == InitConfig /\ [][NextConfig]_vars

---------------------------------------------------------------------------
(* SpecScan: one call of getDataCoverage on a drawn source, with or        *)
(* without an onChunk callback; the callback here only records its calls,  *)
(* takes a step to settle and may reject.                                  *)

MaxFailIndex == 1

AllChunks == 0..(totalChunks - 1)

FailFamilies ==
    (SUBSET (0..MaxFailIndex)) \cup {AllChunks, {totalChunks - 1}}

ScanKinds == {"none", "fin", "nan", "inf", "mixed"}

\* Day 0 precedes the scanned window, which starts on day 1.
SpecialDays == {<<1, 3>>, <<2, 8>>, <<10, 15>>, <<59, 61>>}

Scenarios ==
    {[base |-> b, special |-> k, from |-> span[1], to |-> span[2], order |-> o] :
        b \in ScanKinds, k \in ScanKinds, span \in SpecialDays, o \in {"asc", "desc"}}

ScanNows ==
    {(totalDaysToCheck + 1) * HoursPerDay, (totalDaysToCheck + 1) * HoursPerDay + 12}

InitScan ==
    /\ now \in ScanNows
    /\ tzLocal = 0 /\ tzApex = 0
    /\ config = [queryChunkDays |-> 1, queryLookbackDays |-> 1, forceFullSync |-> FALSE]
    /\ source \in {sc \in Scenarios : sc.base # sc.special \/ sc.from = 1}
    /\ scanCeiling = 1
    /\ failChunks \in FailFamilies
    /\ status = DefaultStatus
    /\ db = {}
    /\ faultsLeft \in {0, MaxFaults}
    /\ helper = HelperIdle
    /\ \E hasOnChunk \in BOOLEAN :
          /\ hasOnChunk \/ faultsLeft = 0
          /\ scan = ScanCall(hasOnChunk)
    /\ sink = SinkIdle /\ recon = ReconIdle
    /\ bf = BfIdle /\ poll = PollIdle /\ proc = ProcIdle

\* The recording callback settles: it resolves, or it rejects.
StubSinkSettle ==
    /\ sink.pc = "called"
    /\ \/ sink' = [sink EXCEPT !.pc = "resolved"] /\ faultsLeft' = faultsLeft
       \/ /\ faultsLeft > 0
          /\ sink' = [sink EXCEPT !.pc = "rejected", !.err = ErrGeneric]
          /\ faultsLeft' = faultsLeft - 1
    /\ UNCHANGED <<envVars, db, helper, scan, recon, bf, poll, proc>>

NextScan == ScanFetch \/ ScanResume \/ StubSinkSettle

SpecScan == InitScan /\ [][NextScan]_vars

---------------------------------------------------------------------------
(* Spec: the process from startup: the backfill, then the detached         *)
(* reconciliation pass beside the first poll and the scheduled ticks.      *)

MaxTicks == 1

\* <<process offset, controller offset>> in hours from UTC
TzPairs == {<<0, 0>>, <<-8, 0>>, <<0, -8>>}

SysNow == 61 * HoursPerDay + 12

SysConfigs ==
    [queryChunkDays : {7}, queryLookbackDays : {14}, forceFullSync : BOOLEAN]

SysCeilings == {5, 30}

SysSources ==
    {[base |-> "none", special |-> k, from |-> 59, to |-> 61, order |-> "asc"] :
        k \in {"fin", "mixed"}}
    \cup {[base |-> "none", special |-> "fin", from |-> 58, to |-> to, order |-> "asc"] :
              to \in {59, 61}}

SysFailFamilies == {{}, {totalChunks - 1}}

\* What the store holds at startup: nothing, or the points of an earlier day.
InitialStores ==
    {{}, SeqToSet(mapAllRecordsToPoints(SortByDate(RecordsOnDays({59})), tzApex))}

Init ==
    /\ now = SysNow
    /\ \E tz \in TzPairs : tzLocal = tz[1] /\ tzApex = tz[2]
    /\ config \in SysConfigs
    /\ source \in SysSources
    /\ scanCeiling \in (IF config.forceFullSync THEN {SetMax(SysCeilings)} ELSE SysCeilings)
    /\ failChunks \in (IF source.special = "mixed" THEN SysFailFamilies ELSE {{}})
    /\ status = DefaultStatus
    /\ db \in InitialStores
    /\ faultsLeft \in {0, MaxFaults}
    /\ helper = HelperIdle /\ scan = ScanIdle /\ sink = SinkIdle
    /\ recon = ReconIdle /\ bf = BfIdle /\ poll = PollIdle
    /\ proc = [ProcIdle EXCEPT !.pc = "start"]

\* A scheduled tick: poll is called again.
CronTick ==
    /\ proc.pc = "scheduled"
    /\ poll.pc = "done"
    /\ poll.ticks <= MaxTicks
    /\ poll' = PollCall(poll)
    /\ UNCHANGED <<envVars, db, faultsLeft, helper, scan, sink, recon, bf, proc>>

Next ==
    \/ MainStart \/ MainAfterBackfill \/ MainAfterPoll \/ CronTick
    \/ BackfillFetchDatalog \/ BackfillFetchOutlog \/ BackfillWrite
    \/ FreshnessGetDatalog \/ FreshnessPreCheck \/ FreshnessAfterScan
    \/ FreshnessAfterNewest \/ FreshnessReport
    \/ OnChunkStart \/ OnChunkWrite \/ OnChunkDelay
    \/ QueryNewestInChunks \/ QueryOldestInChunks
    \/ ScanFetch \/ ScanResume
    \/ PollGetDatalog \/ PollWriteProbes \/ PollGetStatus \/ PollWriteOutlets

Spec == Init /\ [][Next]_vars

---------------------------------------------------------------------------
(* SpecSync: the process of Spec where the process and the controller may  *)
(* be sixteen hours apart, more than the twelve hours between two records. *)

SyncTzPairs == {<<0, 0>>, <<8, -8>>}

SyncSources ==
    {[base |-> "none", special |-> k, from |-> 59, to |-> 61, order |-> "asc"] :
        k \in {"fin", "mixed"}}

InitSync ==
    /\ now = SysNow
    /\ \E tz \in SyncTzPairs : tzLocal = tz[1] /\ tzApex = tz[2]
    /\ config \in SysConfigs
    /\ source \in SyncSources
    /\ scanCeiling = SetMax(SysCeilings)
    /\ failChunks = {}
    /\ status = DefaultStatus
    /\ db \in InitialStores
    /\ faultsLeft \in {0, MaxFaults}
    /\ helper = HelperIdle /\ scan = ScanIdle /\ sink = SinkIdle
    /\ recon = ReconIdle /\ bf = BfIdle /\ poll = PollIdle
    /\ proc = [ProcIdle EXCEPT !.pc = "start"]

SpecSync == InitSync /\ [][Next]_vars

---------------------------------------------------------------------------
(* SpecPass: the scan of one reconciliation pass with its sink, from the    *)
(* moment the cutoff was read, on a controller whose records carry enough   *)
(* probes for a chunk to need more than one batch.                          *)

PassSources ==
    {[base |-> "none", special |-> "wide", from |-> 58, to |-> 61, order |-> o] :
        o \in {"asc", "desc"}}

\* The store's newest timestamp at the pre-check: none, or that of a record.
PassCutoffs == {<<>>, <<58 * HoursPerDay + 6>>, <<60 * HoursPerDay + 6>>}

InitPass ==
    /\ now = SysNow
    /\ tzLocal = 0 /\ tzApex = 0
    /\ config \in SysConfigs
    /\ source \in PassSources
    /\ scanCeiling = 30
    /\ failChunks = {}
    /\ status = DefaultStatus
    /\ faultsLeft \in {0, MaxFaults}
    /\ helper = HelperIdle /\ scan = ScanCall(TRUE) /\ sink = SinkIdle
    /\ \E cutoff \in PassCutoffs :
          /\ db = {ProbePoint(cutoff[k]) : k \in 1..Len(cutoff)}
          /\ recon = [ReconIdle EXCEPT
                         !.pc = "scanning",
                         !.newestDbTimeBefore = cutoff,
                         !.cutoffTimeMs = IF config.forceFullSync \/ cutoff = <<>>
                                          THEN 0 ELSE cutoff[1]]
    /\ bf = BfIdle /\ poll = PollIdle /\ proc = ProcIdle

NextPass == ScanFetch \/ ScanResume \/ OnChunkStart \/ OnChunkWrite \/ OnChunkDelay

SpecPass == InitPass /\ [][NextPass]_vars

---------------------------------------------------------------------------
(* SpecBackfill: startup through the backfill up to the first store query  *)
(* of the pass, on controllers with many probes, with NaN readings, or     *)
(* with nothing in the last day.                                           *)

BackfillSources ==
    {[base |-> "none", special |-> "wide", from |-> 58, to |-> 61, order |-> "asc"],
     [base |-> "none", special |-> "mixed", from |-> 59, to |-> 61, order |-> "asc"],
     [base |-> "none", special |-> "fin", from |-> 58, to |-> 59, order |-> "asc"]}

InitBackfill ==
    /\ now = SysNow
    /\ \E tz \in TzPairs : tzLocal = tz[1] /\ tzApex = tz[2]
    /\ config \in SysConfigs
    /\ source \in BackfillSources
    /\ scanCeiling \in SysCeilings
    /\ failChunks = {}
    /\ status = DefaultStatus
    /\ db \in InitialStores
    /\ faultsLeft \in {0, MaxFaults}
    /\ helper = HelperIdle /\ scan = ScanIdle /\ sink = SinkIdle
    /\ recon = ReconIdle /\ bf = BfIdle /\ poll = PollIdle
    /\ proc = [ProcIdle EXCEPT !.pc = "start"]

NextBackfill ==
    \/ MainStart \/ BackfillFetchDatalog \/ BackfillFetchOutlog \/ BackfillWrite
    \/ MainAfterBackfill \/ FreshnessGetDatalog \/ QueryNewestInChunks

SpecBackfill == InitBackfill /\ [][NextBackfill]_vars

---------------------------------------------------------------------------
(* SpecShutdown: the process with signals.  The handlers of SIGINT and      *)
(* SIGTERM are installed at the end of main, after cron.schedule; before    *)
(* that a signal has its default action and ends the process.  How long    *)
(* the client's close() stays pending is the library's affair.             *)

MaxSignals == 2

Signals == {"SIGINT", "SIGTERM"}

ProcessAlive == proc.pc \notin {"exited", "killed", "crashed"}

\* async () => { console.log('Shutting down...'); await influx.close(); ... }
\* up to its await: close() is invoked and the handler waits for it.
SignalHandler(p, sig) ==
    [p EXCEPT !.signals = Append(@, sig), !.closeCalls = @ + 1, !.closing = @ + 1]

\* A signal is delivered to the process.
Signal ==
    /\ ProcessAlive
    /\ Len(proc.signals) < MaxSignals
    /\ \E sig \in Signals :
          proc' = IF proc.pc = "scheduled"
                  THEN SignalHandler(proc, sig)
                  ELSE [proc EXCEPT !.pc = "killed", !.signals = Append(@, sig)]
    /\ UNCHANGED <<envVars, db, faultsLeft, helper, scan, sink, recon, bf, poll>>

\* A pending close() settled: process.exit(0)
CloseSettles ==
    /\ ProcessAlive
    /\ proc.closing > 0
    /\ proc' = [proc EXCEPT !.pc = "exited", !.closing = @ - 1]
    /\ UNCHANGED <<envVars, db, faultsLeft, helper, scan, sink, recon, bf, poll>>

ShutdownSources ==
    {[base |-> "none", special |-> "fin", from |-> 59, to |-> 61, order |-> "asc"]}

InitShutdown ==
    /\ now = SysNow
    /\ tzLocal = 0 /\ tzApex = 0
    /\ config \in SysConfigs
    /\ source \in ShutdownSources
    /\ scanCeiling = SetMax(SysCeilings)
    /\ failChunks = {}
    /\ status = DefaultStatus
    /\ db \in InitialStores
    /\ faultsLeft \in {0, MaxFaults}
    /\ helper = HelperIdle /\ scan = ScanIdle /\ sink = SinkIdle
    /\ recon = ReconIdle /\ bf = BfIdle /\ poll = PollIdle
    /\ proc = [ProcIdle EXCEPT !.pc = "start"]

NextShutdown ==
    \/ Signal
    \/ CloseSettles
    \/ ProcessAlive /\ Next

SpecShutdown == InitShutdown /\ [][NextShutdown]_vars

---------------------------------------------------------------------------
(* SpecMap: startup through the backfill and the first poll, which apply   *)
(* mapAllRecordsToPoints, mapDatalogToPoints and mapStatusToOutletPoints   *)
(* to what the controller returns, on drawn record sets and snapshots.     *)

MaxOutputs == 2

StatusStates == {"ON", "OFF", "AON", "AOF", "TBL"}

OutputTypes == {"outlet", "virtual"}

\* The snapshots of up to MaxOutputs outputs, each of any type and state.
StatusSnapshots ==
    UNION {{[k \in 1..n |-> [name |-> ToString(k), type |-> f[k].type,
                             status |-> <<f[k].state>>]] :
               f \in [1..n -> [type : OutputTypes, state : StatusStates]]} :
           n \in 0..MaxOutputs}

MapSources ==
    {[base |-> "none", special |-> k, from |-> 60, to |-> to, order |-> o] :
        k \in {"fin", "mixed", "inf"}, to \in {60, 61}, o \in {"asc", "desc"}}
    \cup {[base |-> "none", special |-> "fin", from |-> 58, to |-> 59, order |-> "asc"]}

MapNows == {SysNow, SysNow + 7}

InitMap ==
    /\ now \in MapNows
    /\ \E tz \in {<<0, 0>>, <<0, -8>>} : tzLocal = tz[1] /\ tzApex = tz[2]
    /\ config = [queryChunkDays |-> 7, queryLookbackDays |-> 14, forceFullSync |-> FALSE]
    /\ source \in MapSources
    /\ scanCeiling = SetMax(SysCeilings)
    /\ failChunks = {}
    /\ status \in StatusSnapshots
    /\ db = {}
    /\ faultsLeft = 0
    /\ helper = HelperIdle /\ scan = ScanIdle /\ sink = SinkIdle
    /\ recon = ReconIdle /\ bf = BfIdle /\ poll = PollIdle
    /\ proc = [ProcIdle EXCEPT !.pc = "start"]

NextMap ==
    \/ MainStart \/ BackfillFetchDatalog \/ BackfillFetchOutlog \/ BackfillWrite
    \/ MainAfterBackfill
    \/ PollGetDatalog \/ PollWriteProbes \/ PollGetStatus \/ PollWriteOutlets
    \/ MainAfterPoll

SpecMap == InitMap /\ [][NextMap]_vars

---------------------------------------------------------------------------
(* Reference notions for the helper's claims. *)

ProbeTimes == {p.t : p \in {q \in db : q.m = "apex_probe"}}

InLookback(t) == t > now - config.queryLookbackDays * HoursPerDay /\ t <= now

\* What a single query over the whole table would return.
UnboundedExtremal(mode) == LimitOne(ProbeTimes, IF mode = "newest" THEN "DESC" ELSE "ASC")

WidestSubRange == Min(config.queryChunkDays, config.queryLookbackDays)

\* ceil(lookback / chunk): the sub-ranges of the lookback window.
NumSubRanges ==
    (config.queryLookbackDays + config.queryChunkDays - 1) \div config.queryChunkDays

HelperReturned == helper.pc = "returned"

ExtremalInLookback ==
    /\ ProbeTimes # {}
    /\ InLookback(UnboundedExtremal(helper.mode)[1])

C4_FileLimitSkippedOthersPropagate ==
    /\ \A i \in 1..Len(helper.asked) :
          /\ helper.asked[i].reply \in {"empty", "limit"}
                => \/ i < Len(helper.asked)
                   \/ helper.pc = "loop"
                   \/ helper.pc = "returned" /\ helper.result = <<>> /\ i = NumSubRanges
          /\ helper.asked[i].reply = "rows"
                => i = Len(helper.asked) /\ helper.pc = "returned" /\ helper.result # <<>>
          /\ helper.asked[i].reply = "error"
                => /\ i = Len(helper.asked) /\ helper.pc = "threw"
                   /\ helper.err \in GenericStoreErrors
    /\ helper.pc = "threw" => /\ Len(helper.asked) > 0
                              /\ helper.asked[Len(helper.asked)].reply = "error"
    /\ (helper.pc = "returned" /\ helper.result = <<>>) => Len(helper.asked) = NumSubRanges

\* A search that went on after a scan-limited sub-range and found data, or
\* ran out of sub-ranges after one.
C4_Witness ==
    /\ HelperReturned
    /\ Len(helper.asked) >= 2
    /\ helper.asked[1].reply = "limit"
    /\ helper.asked[Len(helper.asked)].reply \in {"rows", "empty"}

---------------------------------------------------------------------------
(* Reference notions for the scanner's claims. *)

Range(seq) == {seq[i] : i \in 1..Len(seq)}

Abs(x) == IF x < 0 THEN -x ELSE x

\* The chunks among the first k whose fetch succeeded, and their records.
OkChunks(k) == {i \in 0..(k - 1) : i \notin failChunks}

FetchedRecords(k) == UNION {Range(ChunkRecords(i)) : i \in OkChunks(k)}

\* At least one sub-reading is a finite number.
TrulyUseful(r) ==
    \E i \in 1..Len(r.probes) : r.probes[i].value.kind \notin {"nan", "pinf", "ninf"}

UsefulFetched(k) == {r \in FetchedRecords(k) : TrulyUseful(r)}

EligibleChunks(k) == {i \in OkChunks(k) : \E r \in Range(ChunkRecords(i)) : TrulyUseful(r)}

ScanDone == scan.pc = "done"

\* C5: a failed chunk fetch is logged and skipped: the scan never raises,
\* every chunk is fetched in turn whatever failed before it, and the result
\* counts exactly the records of the chunks whose fetch succeeded.
C5_FailedFetchSkipped ==
    /\ scan.pc # "threw"
    /\ Len(scan.fetchLog) = scan.chunkIndex + (IF scan.pc = "awaitSink" THEN 1 ELSE 0)
    /\ \A i \in 1..Len(scan.fetchLog) :
          scan.fetchLog[i] = (IF (i - 1) \in failChunks THEN "failed" ELSE "ok")
    /\ scan.errorsLogged >= Cardinality({i \in 1..Len(scan.fetchLog) : scan.fetchLog[i] = "failed"})
    /\ ScanDone =>
          /\ Len(scan.fetchLog) = totalChunks
          /\ Len(scan.result) = 1
          /\ scan.result[1].totalRecords = Cardinality(FetchedRecords(totalChunks))
          /\ scan.result[1].usefulRecords = Cardinality(UsefulFetched(totalChunks))

\* A finished scan whose first chunk failed although the controller holds
\* records for it, and whose later chunks were counted.
C5_Witness ==
    /\ ScanDone
    /\ 0 \in failChunks
    /\ ChunkRecords(0) # <<>>
    /\ scan.result[1].usefulRecords > 0

\* C6: onChunk is invoked exactly once for each fetched chunk with a useful
\* record, in chunk order, and for no other chunk; it receives the chunk's
\* whole record set; while it runs the scanner waits and fetches nothing.
C6_SinkOncePerUsefulChunk ==
    /\ ~scan.hasOnChunk => sink.calls = <<>> /\ sink.pc = "idle"
    /\ sink.pc # "idle" =>
          /\ scan.pc = "awaitSink"
          /\ sink.chunk = scan.chunkIndex
          /\ sink.calls # <<>> /\ sink.calls[Len(sink.calls)] = sink.chunk
          /\ sink.records = ChunkRecords(sink.chunk)
    /\ \A i \in 1..(Len(sink.calls) - 1) : sink.calls[i] < sink.calls[i + 1]
    /\ (ScanDone /\ scan.hasOnChunk) => Range(sink.calls) = EligibleChunks(totalChunks)

\* A finished scan that called the sink for several chunks and not for a
\* fetched chunk whose records hold no finite reading.
C6_Witness ==
    /\ ScanDone /\ scan.hasOnChunk
    /\ Len(sink.calls) >= 2
    /\ \E i \in OkChunks(totalChunks) :
          ChunkRecords(i) # <<>> /\ i \notin Range(sink.calls)

\* C7: every result has 0 <= coveragePercent <= 100 (in hundredths here).
C7_CoverageWithinBounds ==
    ScanDone => /\ scan.result[1].coveragePercent >= 0
                /\ scan.result[1].coveragePercent <= 100 * 100

\* C8: daysWithData is the number of distinct calendar days with a useful
\* record in a fetched chunk; coveragePercent is daysWithData / totalDays *
\* 100 to the nearest hundredth; without useful records both are 0 and the
\* two date fields are empty.
C8_CoverageResultValues ==
    ScanDone =>
        LET r == scan.result[1]
            days == {u.date \div HoursPerDay : u \in UsefulFetched(totalChunks)}
        IN  /\ r.daysWithData = Cardinality(days)
            /\ r.totalDays = totalDaysToCheck
            /\ 2 * Abs(r.coveragePercent * r.totalDays - 100 * 100 * r.daysWithData) <= r.totalDays
            /\ r.usefulRecords = 0 =>
                  /\ r.coveragePercent = 0 /\ r.daysWithData = 0
                  /\ r.oldestUsefulRecordDate = <<>> /\ r.newestUsefulRecordDate = <<>>
            /\ r.usefulRecords > 0 =>
                  r.oldestUsefulRecordDate # <<>> /\ r.newestUsefulRecordDate # <<>>

\* Sixty fully covered days: daysWithData = 60 and 100.00 percent.
C8_Witness ==
    /\ ScanDone
    /\ scan.result[1].daysWithData = totalDaysToCheck
    /\ scan.result[1].coveragePercent = 100 * 100
    /\ failChunks = {}

\* C9: usefulRecords counts exactly the fetched records with at least one
\* finite sub-reading; NaN and the infinities never make a record useful.
C9_UsefulIffFiniteReading ==
    /\ ScanDone => scan.result[1].usefulRecords = Cardinality(UsefulFetched(totalChunks))
    /\ sink.pc # "idle" => \E r \in Range(sink.records) : TrulyUseful(r)

\* A finished scan over records with infinite readings only and records
\* with one NaN and one finite reading.
C9_Witness ==
    /\ ScanDone
    /\ source.base = "inf" /\ source.special = "mixed"
    /\ scan.result[1].usefulRecords > 0
    /\ scan.result[1].usefulRecords < scan.result[1].totalRecords

---------------------------------------------------------------------------
(* Reference notions for the claims about the running process. *)

\* The pass has read its cutoff and filters with it.
CutoffInForce == recon.newestDbTimeBefore # <<>> /\ ~config.forceFullSync

\* The timestamp the store holds for a record: the one its points carry.
RecordTimestamp(record) == parseApexDate(record.date, tzApex)

\* What queryNewestInChunks answers on a store nobody writes to meanwhile.
RECURSIVE NewestOf(_, _)
NewestOf(store, startDays) ==
    IF ~NewestLoopCond(startDays) THEN <<>>
    ELSE LET endDays == NewestEndDays(startDays)
             times == {p.t : p \in {q \in store : /\ q.m = "apex_probe"
                                                  /\ q.t > now - endDays * HoursPerDay
                                                  /\ q.t <= now - startDays * HoursPerDay}}
         IN  IF endDays - startDays <= scanCeiling /\ times # {}
             THEN <<SetMax(times)>>
             ELSE NewestOf(store, startDays + config.queryChunkDays)

\* The records of the chunks that hold a useful record (failChunks = {}).
DeliveredRecords ==
    UNION {SeqToSet(ChunkRecords(c)) :
              c \in {d \in 0..(totalChunks - 1) :
                        \E k \in 1..Len(ChunkRecords(d)) : hasUsefulData(ChunkRecords(d)[k])}}

\* The store after the pass ran alone from `store`, then one poll.
SerialStore(store) ==
    LET cutoff == NewestOf(store, 0)
        forwarded == {r \in DeliveredRecords :
                         \/ cutoff = <<>> \/ config.forceFullSync
                         \/ parseApexDateLocal(r.date) > cutoff[1]}
        passPoints == SeqToSet(mapAllRecordsToPoints(SortByDate(forwarded), tzApex))
        pollPoints == SeqToSet(mapDatalogToPoints(CurrentRecords, tzApex))
                      \cup SeqToSet(mapStatusToOutletPoints(StatusOutputs, now))
    IN  Upsert(Upsert(store, passPoints), pollPoints)

\* The pass and the first poll both ended, nothing failed since the launch.
BothFinishedCleanly ==
    /\ proc.launched /\ recon.pc = "done" /\ poll.pc = "done" /\ poll.ticks = 1
    /\ faultsLeft = proc.faultsAtLaunch /\ failChunks = {}

---------------------------------------------------------------------------
(* Claims about the running process. *)

\* C1: with a cutoff T read from the store before the scan and force-full-
\* sync off, no record whose timestamp is <= T is forwarded to the write
\* path; with force-full-sync on or no cutoff, every delivered record is.
C1_NoRecordAtOrBeforeCutoffForwarded ==
    /\ CutoffInForce =>
          \A r \in recon.forwarded : RecordTimestamp(r) > recon.newestDbTimeBefore[1]
    /\ (recon.pc \in {"scanning", "postNewest", "postOldest"} /\ ~CutoffInForce) =>
          recon.forwarded = recon.delivered

\* C2: when the pass and the concurrent poll have both finished, the store
\* holds what it holds after the pass followed by the poll, whatever the
\* interleaving of their writes and queries.
C2_FinalStoreSameForEveryInterleaving ==
    BothFinishedCleanly => db = SerialStore(proc.dbAtLaunch)

\* C10: no failure of a fetch, a query or a write leaves checkDatabaseFreshness
\* or backfillRecentGaps: their promises never reject, an ended routine has
\* resolved, and the process goes on to its poll ticks.
C10_FailuresStayInsideTheRoutines ==
    /\ recon.outcome # "rejected" /\ bf.outcome # "rejected"
    /\ proc.pc # "crashed"
    /\ recon.pc = "done" => recon.outcome = "resolved"
    /\ bf.pc = "done" => bf.outcome = "resolved"
    /\ (bf.failed /\ proc.pc # "awaitBackfill") => proc.launched

\* The pass failed and resolved, and a scheduled tick ran to its end after it.
C10_Witness ==
    /\ recon.report = "failed" /\ recon.outcome = "resolved"
    /\ proc.pc = "scheduled" /\ poll.ticks = 2 /\ poll.pc = "done"
    /\ poll.outcome = "resolved" /\ poll.failures = 0


\* C11: once a query of the pass was rejected for exceeding the store's
\* scan ceiling, the pass emits the remediation guidance and ends: it does
\* not go on to the scan, it issues no store write, and it does not reject.
C11_ScanCeilingAbortsPass ==
    recon.limitHits > 0 =>
        /\ recon.pc = "done" /\ recon.report = "fileLimit"
        /\ recon.outcome = "resolved"
        /\ recon.writeLog = <<>>


\* C12: after a store write of the pass failed with a generic error, the
\* pass fetches no further chunk from the source and writes no further
\* batch to the store.
C12_WriteFailureEndsPass ==
    \A k \in 1..Len(recon.writeLog) :
        ~recon.writeLog[k].ok =>
            /\ k = Len(recon.writeLog)
            /\ Len(scan.fetchLog) = recon.writeLog[k].fetches


---------------------------------------------------------------------------
(* Claims about the write path of the pass. *)

\* The timestamps of a batch never decrease.
Ascending(batch) == \A k \in 1..(Len(batch) - 1) : batch[k].t <= batch[k + 1].t

\* C13: the batches the sink writes hold at most 500 points each; within a
\* chunk they are consecutive pieces of the forwarded records sorted
\* ascending by timestamp, so a point of an earlier record is never written
\* in a later batch than a point of a later record; and the batches of an
\* earlier chunk are written before those of a later chunk.
C13_BatchesChronological ==
    \A k \in 1..Len(recon.writeLog) :
        LET entry == recon.writeLog[k]
        IN  /\ Len(entry.batch) >= 1 /\ Len(entry.batch) <= batchSize
            /\ Ascending(entry.batch)
            /\ \A p \in SeqToSet(entry.batch) :
                  \E r \in recon.forwarded : p.t = RecordTimestamp(r)
            /\ k < Len(recon.writeLog) =>
                  LET next == recon.writeLog[k + 1]
                  IN  /\ entry.chunk <= next.chunk
                      /\ entry.chunk = next.chunk =>
                            /\ Len(entry.batch) = batchSize
                            /\ entry.batch[Len(entry.batch)].t <= next.batch[1].t

\* A chunk the source sent newest-first was written in two batches, after
\* the cutoff had dropped a record.
C13_Witness ==
    /\ source.order = "desc" /\ CutoffInForce
    /\ Len(recon.writeLog) = 2
    /\ recon.writeLog[1].chunk = recon.writeLog[2].chunk
    /\ recon.writeLog[1].ok /\ recon.writeLog[2].ok
    /\ recon.recordsSkipped > 0
    /\ sink.pc = "resolved"


---------------------------------------------------------------------------
(* Claims about startup and the schedule. *)

\* C14: while the backfill has not ended (all its writes issued, or its
\* failure logged) the pass is not launched and the poll has issued nothing;
\* once main has moved past the backfill, failed or not, the pass is
\* launched and the first poll has been called.
C14_BackfillCompletesBeforeLaunch ==
    /\ bf.pc # "done" => (recon = ReconIdle /\ poll = PollIdle /\ ~proc.launched)
    /\ proc.pc \in {"awaitPoll", "scheduled"} =>
          (bf.pc = "done" /\ proc.launched /\ recon.pc # "idle" /\ poll.ticks >= 1)
    /\ proc.pc # "crashed"

\* The backfill failed, and the pass, the first poll and the schedule started.
C14_Witness ==
    /\ bf.failed /\ bf.pc = "done"
    /\ proc.pc = "scheduled" /\ recon.pc # "idle" /\ poll.ticks >= 1


\* C15: when the backfill ended on a failure of one stream, the records it
\* had fetched for the other stream are in the store.
C15_BackfillStreamsIndependent ==
    bf.pc = "done" =>
        /\ bf.failedAt \in {"fetchOutlog", "writeOutlets"} =>
              SeqToSet(mapAllRecordsToPoints(bf.datalog, tzApex)) \subseteq db
        /\ bf.failedAt \in {"fetchDatalog", "writeProbes"} =>
              SeqToSet(mapAllOutlogToPoints(bf.outlog, tzApex)) \subseteq db


---------------------------------------------------------------------------
(* Claims about the backfill. *)

\* The points of the batches of a write log, in the order they were issued.
RECURSIVE Flatten(_)
Flatten(log) == IF log = <<>> THEN <<>> ELSE Head(log).batch \o Flatten(Tail(log))

\* ceil(n / batchSize)
BatchesFor(n) == (n + batchSize - 1) \div batchSize

\* The points the backfill derives from what it fetched, in derivation order.
BackfillProbePoints ==
    IF Len(bf.datalog) > 0 THEN mapAllRecordsToPoints(bf.datalog, tzApex) ELSE <<>>

BackfillOutletPoints ==
    IF Len(bf.outlog) > 0 THEN mapAllOutlogToPoints(bf.outlog, tzApex) ELSE <<>>

\* C16: the backfill issues no store query; its batches hold at most 500
\* points and, put end to end, are the points derived from the fetched
\* probe records followed by those of the outlet records, each once and in
\* derivation order (a run cut short by a failure has written a prefix);
\* a run without failure issues ceil(n/500) writes per stream of n points
\* and counts n; with zero records in both streams it writes nothing,
\* reports that no records were found and ends without error.
C16_BackfillWritesEveryPointOnce ==
    LET derived == BackfillProbePoints \o BackfillOutletPoints
        flat == Flatten(bf.writeLog)
    IN  /\ bf.pc # "done" => (helper = HelperIdle /\ recon = ReconIdle)
        /\ \A k \in 1..Len(bf.writeLog) :
              Len(bf.writeLog[k].batch) >= 1 /\ Len(bf.writeLog[k].batch) <= batchSize
        /\ Len(flat) <= Len(derived) /\ flat = SubSeq(derived, 1, Len(flat))
        /\ (bf.pc = "done" /\ ~bf.failed) =>
              /\ flat = derived
              /\ Len(bf.writeLog) = BatchesFor(Len(BackfillProbePoints))
                                    + BatchesFor(Len(BackfillOutletPoints))
              /\ bf.probeCount = Len(BackfillProbePoints)
              /\ bf.outletCount = Len(BackfillOutletPoints)
              /\ SeqToSet(derived) \subseteq db \/ proc.launched
              /\ bf.outcome = "resolved"
              /\ (bf.datalog = <<>> /\ bf.outlog = <<>>) =>
                    (bf.writeLog = <<>> /\ bf.report = "noRecords")

\* A backfill of more than 500 probe points ended without failure: two
\* probe batches and an outlet batch.
C16_Witness ==
    /\ bf.pc = "done" /\ ~bf.failed
    /\ Len(bf.writeLog) = 3 /\ Len(bf.writeLog[1].batch) = batchSize
    /\ bf.probeCount > batchSize /\ bf.outletCount > 0
    /\ bf.report = "complete"


---------------------------------------------------------------------------
(* Claims about timestamps and the report of the pass. *)

\* C17: the instant the pass derives from a record's date string, for the
\* source's latest record and for every record its filter compares with
\* the cutoff, is the instant stamped on the record's points: the wall
\* clock minus the controller's offset.
C17_ParseUsesControllerOffset ==
    /\ recon.apexTime # <<>> =>
          recon.apexTime[1] = parseApexDate(recon.latestDate[1], tzApex)
    /\ \A r \in recon.delivered : parseApexDateLocal(r.date) = RecordTimestamp(r)


\* The pass ended with its status report.
Reported == recon.pc = "done" /\ recon.report \in {"firstRun", "behind", "ahead", "upToDate"}

\* C18: the report says "first run" exactly when the post-scan query found
\* no point within the lookback, and otherwise "behind", "ahead" or "up to
\* date" exactly when the instant of the source's latest record is later
\* than, earlier than, or equal to the store's newest timestamp.
C18_ReportFollowsSignOfDifference ==
    Reported =>
        LET latest == parseApexDate(recon.latestDate[1], tzApex)
        IN  /\ recon.report = "firstRun" <=> recon.newestResult = <<>>
            /\ recon.newestResult # <<>> =>
                  /\ recon.report = "behind" <=> latest > recon.newestResult[1]
                  /\ recon.report = "ahead" <=> latest < recon.newestResult[1]
                  /\ recon.report = "upToDate" <=> latest = recon.newestResult[1]


\* C19: a pass that found the source's current record set empty reports
\* "no records" and has resolved, having issued no store query, no
\* historical scan and no store write; and a pass that goes on past its
\* first fetch has found a latest record.
C19_EmptyRecordSetEndsPass ==
    /\ recon.report = "noRecords" =>
          /\ recon.pc = "done" /\ recon.outcome = "resolved"
          /\ CurrentRecords = <<>>
          /\ helper = HelperIdle /\ recon.limitHits = 0
          /\ recon.newestDbTimeBefore = <<>> /\ recon.newestResult = <<>>
          /\ scan = ScanIdle /\ sink = SinkIdle
          /\ recon.writeLog = <<>> /\ recon.delivered = {}
    /\ (recon.pc \notin {"idle", "getDatalog"}
        /\ recon.report \notin {"noRecords", "failed"}) => recon.latestDate # <<>>

\* The pass ended on an empty record set while the polls went on.
C19_Witness ==
    /\ recon.report = "noRecords" /\ recon.pc = "done"
    /\ proc.pc = "scheduled" /\ poll.ticks = 2 /\ poll.pc = "done"
    /\ db # {}


\* A step of the tick in progress.
PollStep == PollGetDatalog \/ PollWriteProbes \/ PollGetStatus \/ PollWriteOutlets

\* C20: a failure inside a poll tick stays inside the tick (poll resolves,
\* the process goes on) and the next scheduled tick can start; and whatever
\* the state of the detached pass, unfinished or failed, a tick in progress
\* can take its next step and a scheduled tick can start.
C20_TicksRunWhateverFailed ==
    /\ poll.outcome # "rejected" /\ proc.pc # "crashed"
    /\ poll.pc = "done" => poll.outcome = "resolved"
    /\ poll.pc \in {"getDatalog", "writeProbes", "getStatus", "writeOutlets"} =>
          ENABLED PollStep
    /\ (proc.pc = "scheduled" /\ poll.pc = "done" /\ poll.ticks <= MaxTicks) =>
          ENABLED CronTick
    /\ (proc.pc = "awaitPoll" /\ poll.pc = "done") => ENABLED MainAfterPoll

\* The first tick failed, and the next tick ran to its end while the pass
\* was still scanning.
C20_Witness ==
    /\ poll.lastFailedTick = 1 /\ poll.failures = 1
    /\ poll.ticks = 2 /\ poll.pc = "done" /\ poll.outcome = "resolved"
    /\ recon.pc = "scanning"



---------------------------------------------------------------------------
(* Claims about shutdown. *)

\* C21: whatever signals are delivered, and also when one arrives while the
\* close started by an earlier one is still pending, close() is invoked at
\* most once.
C21_CloseCalledAtMostOnce == proc.closeCalls <= 1



---------------------------------------------------------------------------
(* Claims about the mapper. *)

\* The state field the documentation gives for a status string.
StateOf(stateStr) ==
    CASE stateStr = "ON" -> 1
      [] stateStr = "AON" -> 1
      [] stateStr = "OFF" -> 0
      [] stateStr = "AOF" -> 0
      [] stateStr = "TBL" -> 0

\* C22: the points the poll derives from a status snapshot are one per
\* output, in output order, whatever the output's type (none for an empty
\* snapshot); each carries the one timestamp the poll took at its start;
\* its state is 1 for ON and AON and 0 for OFF, AOF and TBL.
C22_OnePointPerOutput ==
    poll.pc = "writeOutlets" =>
        /\ Len(poll.points) = Len(status)
        /\ \A k \in 1..Len(status) :
              /\ poll.points[k].m = "apex_outlet"
              /\ poll.points[k].name = status[k].name
              /\ poll.points[k].type = status[k].type
              /\ poll.points[k].t = poll.timestamp
              /\ poll.points[k].v = Fin(StateOf(status[k].status[1]))

\* A snapshot of an outlet in AON and a virtual output in TBL was mapped.
C22_Witness ==
    /\ poll.pc = "writeOutlets"
    /\ Len(status) = 2 /\ Len(poll.points) = 2
    /\ status[1].type = "outlet" /\ status[1].status[1] = "AON"
    /\ status[2].type = "virtual" /\ status[2].status[1] = "TBL"
    /\ poll.points[1].v = Fin(1) /\ poll.points[2].v = Fin(0)



\* The probes of records[i..] that yield a point, as (record, probe) index
\* pairs in record order then probe order: every probe, or every probe
\* whose value is not NaN.
RECURSIVE SlotsFrom(_, _, _)
SlotsFrom(records, i, dropNaN) ==
    IF i > Len(records) THEN <<>>
    ELSE LET probes == records[i].probes
             idx == SelectSeq([j \in 1..Len(probes) |-> j],
                              LAMBDA j : ~dropNaN \/ probes[j].value.kind # "nan")
         IN  [k \in 1..Len(idx) |-> [rec |-> i, probe |-> idx[k]]]
             \o SlotsFrom(records, i + 1, dropNaN)

\* points are, slot by slot, the probe's name, type and value stamped with
\* the timestamp of the probe's record.
MatchesSlots(points, records, slots) ==
    /\ Len(points) = Len(slots)
    /\ \A k \in 1..Len(slots) :
          LET record == records[slots[k].rec]
              probe == record.probes[slots[k].probe]
          IN  /\ points[k].m = "apex_probe"
              /\ points[k].name = probe.name /\ points[k].type = probe.type
              /\ points[k].v = probe.value
              /\ points[k].t = record.date - tzApex

\* The points of the poll and of the backfill against the slots.
MapperYields(dropNaN) ==
    /\ poll.pc = "writeProbes" =>
          LET records == CurrentRecords
          IN  IF records = <<>> THEN poll.points = <<>>
              ELSE LET last == <<records[Len(records)]>>
                   IN  MatchesSlots(poll.points, last, SlotsFrom(last, 1, dropNaN))
    /\ bf.pc = "writeProbes" =>
          MatchesSlots(bf.points, bf.datalog, SlotsFrom(bf.datalog, 1, dropNaN))

\* C23 as stated: the poll's points are those of the last record of the
\* datalog (none without records), the backfill's those of all records in
\* record order, and a mapped record yields one point for each of its
\* probes, stamped with the record's timestamp.
C23_Original == MapperYields(FALSE)

\* C23 amended: the same, with one point for each probe of the record whose
\* value is not NaN; a probe whose value is NaN yields no point.
C23_OnePointPerNonNaNProbe == MapperYields(TRUE)

\* The backfill wrote the points of several records with a NaN reading each
\* and the poll mapped the last record of a datalog of several records.
C23_Witness ==
    /\ source.special = "mixed"
    /\ bf.report = "complete" /\ Len(bf.datalog) >= 2 /\ bf.probeCount = Len(bf.datalog)
    /\ poll.pc = "writeProbes" /\ Len(CurrentRecords) >= 2 /\ Len(poll.points) = 1



---------------------------------------------------------------------------
(* Claims about the sub-ranges of the chunked query helper. *)

\* The instants a queried sub-range covers: (Lower, Upper].
Lower(q) == q.at - q.endDays * HoursPerDay

Upper(q) == q.at - q.startDays * HoursPerDay

\* C24: the sub-ranges a search queries are at most ceil(lookback / chunk),
\* and exactly that many when it finds nothing; each is (now - endDays,
\* now - startDays]; the newest search starts at now and every next
\* sub-range ends where the one before begins, the oldest search starts at
\* now - lookback and every next sub-range begins where the one before
\* ends, so that they are disjoint and leave no gap, also when the clock
\* advances between two queries; and a search that was never scan-limited
\* and found nothing leaves no record within the lookback window unseen.
C24_SubRangesPartitionLookback ==
    LET asked == helper.asked
        n == Len(asked)
    IN  /\ n <= NumSubRanges
        /\ (helper.pc = "returned" /\ helper.result = <<>>) => n = NumSubRanges
        /\ \A i \in 1..n : /\ asked[i].startDays >= 0
                           /\ asked[i].startDays < asked[i].endDays
                           /\ asked[i].endDays <= config.queryLookbackDays
                           /\ asked[i].endDays - asked[i].startDays <= config.queryChunkDays
        /\ (n > 0 /\ helper.mode = "newest") => asked[1].startDays = 0
        /\ (n > 0 /\ helper.mode = "oldest") => asked[1].endDays = config.queryLookbackDays
        /\ \A i \in 1..(n - 1) :
              IF helper.mode = "newest"
              THEN Upper(asked[i + 1]) = Lower(asked[i])
              ELSE Lower(asked[i + 1]) = Upper(asked[i])
        /\ (helper.pc = "returned" /\ helper.result = <<>>
            /\ \A i \in 1..n : asked[i].reply = "empty") =>
              \A t \in ProbeTimes :
                  ~(t > now - config.queryLookbackDays * HoursPerDay /\ t <= asked[1].at)



---------------------------------------------------------------------------
(* Claims about the chunks and the dates of a scan. *)

\* The days of the spans of a fetch record, added up.
RECURSIVE SumDays(_)
SumDays(spans) == IF spans = <<>> THEN 0 ELSE Head(spans).days + SumDays(Tail(spans))

C26_OldestAndNewestUsefulDates ==
    (ScanDone /\ scan.result[1].usefulRecords > 0) =>
        LET dates == {u.date : u \in UsefulFetched(totalChunks)}
        IN  /\ scan.result[1].oldestUsefulRecordDate = <<SetMin(dates)>>
            /\ scan.result[1].newestUsefulRecordDate = <<SetMax(dates)>>



---------------------------------------------------------------------------
(* Claims about what a pass leaves in the store. *)

\* The records the controller returns for the chunks of the scanned window.
WindowRecords == UNION {SeqToSet(ChunkRecords(c)) : c \in 0..(totalChunks - 1)}

\* The point of a reading of a record, as the store holds it.
PointOfReading(record, probe) ==
    [m |-> "apex_probe", name |-> probe.name, type |-> probe.type,
     t |-> RecordTimestamp(record), v |-> probe.value]

\* The pass ended with its report and nothing failed since its launch.
PassEndedCleanly ==
    /\ Reported /\ failChunks = {} /\ faultsLeft = proc.faultsAtLaunch

\* C27: after a pass in which nothing failed, every finite reading of every
\* record of the scanned window whose timestamp is later than the cutoff
\* the pass read (every record when it read none) is in the store.
C27_NothingNewerThanCutoffUnsynced ==
    PassEndedCleanly =>
        \A r \in WindowRecords :
            (recon.newestDbTimeBefore = <<>>
             \/ RecordTimestamp(r) > recon.newestDbTimeBefore[1]) =>
                \A k \in 1..Len(r.probes) :
                    r.probes[k].value.kind = "fin" => PointOfReading(r, r.probes[k]) \in db



---------------------------------------------------------------------------
(* Claims about the values written. *)

\* Every point of the sequence carries a finite value.
AllFinite(points) == \A k \in 1..Len(points) : points[k].v.kind = "fin"

---------------------------------------------------------------------------
(* Claims about the counters of the pass. *)

\* The points of the write calls of a log that the store took.
RECURSIVE PointsStored(_)
PointsStored(log) ==
    IF log = <<>> THEN 0
    ELSE (IF Head(log).ok THEN Len(Head(log).batch) ELSE 0) + PointsStored(Tail(log))

\* C29: once the scan of the pass is over, the points-synced count is the
\* number of points of the pass's write calls that the store took, also
\* when a write failed after earlier batches of its chunk were written;
\* and the records skipped and the records forwarded by the sink add up to
\* the records it was handed.
C29_CountersMatchWrites ==
    /\ scan.pc \in {"done", "returned"} =>
          recon.pointsWrittenDuringCoverage = PointsStored(recon.writeLog)
    /\ sink.pc \notin {"called"} =>
          recon.recordsSkipped + Cardinality(recon.forwarded) = Cardinality(recon.delivered)



---------------------------------------------------------------------------
(* Claims about the termination of the chunked query helper. *)

\* The days of the lookback a search has not asked about yet.
DaysLeft(h) == IF h.mode = "newest" THEN config.queryLookbackDays - h.days ELSE h.days

\* C30: a search ends after finitely many queries for every integer chunk
\* size and lookback, whatever the store answers: a search that is about
\* to query has days of its lookback left, and every query after which it
\* goes on leaves it fewer of them.
C30_EveryQueryMakesProgress ==
    [][helper.pc = "loop" =>
          /\ DaysLeft(helper) > 0
          /\ helper'.pc = "loop" => DaysLeft(helper') < DaysLeft(helper)]_vars

===========================================================================
